---------------------------- MODULE Spec2Model ----------------------------
(***************************************************************************)
(* A model of the fit/transform pipeline of rust-ml:                       *)
(*   - preprocessing/mod.rs            Preprocessor, PreprocessorFitter,   *)
(*                                     FitStatus                           *)
(*   - encoders/labelencoder.rs        LabelEncoderFitter, LabelEncoder    *)
(*   - encoders/onehotencoder.rs       OneHotEncoderFitter, OneHotEncoder  *)
(*   - scalers/minmaxscaler.rs         MinMaxFitter, MinMaxScaler          *)
(* and of its dataset module:                                              *)
(*   - dataset/mod.rs                  Dataset, MixedDataset, from_csv     *)
(*                                                                         *)
(* One behaviour follows one preprocessor value through its life: a        *)
(* fitter is constructed, fit consumes it and returns the transformer     *)
(* that holds it, transform is called on the transformer any number of    *)
(* times, and (where the fitter derives Clone) the held fitter is cloned  *)
(* and fitted again.                                                       *)
(*                                                                         *)
(* Values.  A HashMap is a function whose DOMAIN is its key set.  A        *)
(* Vector/Vec is a sequence.  An MLResult is a record with tag "Ok" or    *)
(* "Err"; an abort of the call (a failed index or assertion) is the tag   *)
(* "Panic", which is not a value the caller receives.  Label codes and    *)
(* one-hot cells are small whole floats and are written as integers.      *)
(***************************************************************************)
EXTENDS Integers, Sequences, FiniteSets, TLC

VARIABLES
    kind,          \* which preprocessor this behaviour is about
    phase,         \* "none" | "fitter" | "transformer": who holds the fitter
    fitter,        \* the fitter struct (inside the transformer once fitted)
    op,            \* the last call: "none" | "new" | "fit" | "transform" | "idle"
                   \* | "clone", or the name of a dataset constructor
    input,         \* the argument of the last fit / transform call
    output,        \* what the last call returned
    fitted,        \* history: the fitter struct as fit left it
    on_fit_input,  \* history: the last transform got the very input fit got
    fit_self,      \* history: the fitter value the last fit call consumed
    records_read,  \* history: the data records the last from_csv call took
    calls,         \* per caller of a shared transformer: its transform call
    borrow         \* the caller that holds the &mut borrow of the shared
                   \* transformer, 0 when nobody does

vars == <<kind, phase, fitter, op, input, output, fitted, on_fit_input, fit_self,
          records_read, calls, borrow>>

-----------------------------------------------------------------------------
(* Bounds of the explored inputs.                                          *)

MaxLen == 3
MaxRows == 2
NumCallers == 2
Labels == {"a", "b", "c"}

-----------------------------------------------------------------------------
(* Generic helpers.                                                        *)

Range(s) == {s[i] : i \in 1..Len(s)}

SeqsUpTo(S, n) == UNION {[1..m -> S] : m \in 0..n}

NoValue == [tag |-> "None"]

Ok(v) == [tag |-> "Ok", val |-> v]

Err(k) == [tag |-> "Err", kind |-> k]

Panic == [tag |-> "Panic"]

\* HashMap::insert on a map held as a function.
MapInsert(m, k, v) == [x \in (DOMAIN m) \cup {k} |-> IF x = k THEN v ELSE m[x]]

EmptyMap == [x \in {} |-> 0]

\* HashMap::clear: every entry is removed.
HashMap_clear(m) == [x \in (DOMAIN m) \ (DOMAIN m) |-> m[x]]

-----------------------------------------------------------------------------
(* preprocessing/mod.rs                                                    *)

FitStatus_default == "NotFit"

-----------------------------------------------------------------------------
(* encoders/labelencoder.rs                                                *)

LabelEncoderFitter_default ==
    [label_map |-> EmptyMap, fit |-> FitStatus_default]

\* A fit that advances the code on every element, not on every new label.
RECURSIVE LabelFitLoopEveryElement(_, _, _, _)
LabelFitLoopEveryElement(label_map, encoder_value, in, i) ==
    IF i > Len(in) THEN label_map
    ELSE IF in[i] \notin DOMAIN label_map
         THEN LabelFitLoopEveryElement(MapInsert(label_map, in[i], encoder_value),
                                       encoder_value + 1, in, i + 1)
         ELSE LabelFitLoopEveryElement(label_map, encoder_value + 1, in, i + 1)

\* The body of the for loop of fit, from element i on.
RECURSIVE LabelFitLoop(_, _, _, _)
LabelFitLoop(label_map, encoder_value, in, i) ==
    IF i > Len(in) THEN label_map
    ELSE IF in[i] \notin DOMAIN label_map
         THEN LabelFitLoop(MapInsert(label_map, in[i], encoder_value),
                           encoder_value + 1, in, i + 1)
         ELSE LabelFitLoop(label_map, encoder_value, in, i + 1)

\* A fit that leaves self.fit as it found it.
LabelEncoderFitter_fit_StatusNotSet(self, in) ==
    Ok([fitter |-> [label_map |-> LabelFitLoop(EmptyMap, 0, in, 1),
                    fit |-> self.fit]])

\* A fit that walks the input without clearing self.label_map first.
LabelEncoderFitter_fit_NoClear(self, in) ==
    Ok([fitter |-> [label_map |-> LabelFitLoop(self.label_map, 0, in, 1),
                    fit |-> "Fit"]])

\* fit(mut self, input): clear, walk the input, set Fit, wrap self.
LabelEncoderFitter_fit(self, in) ==
    Ok([fitter |-> [label_map |-> LabelFitLoop(HashMap_clear(self.label_map), 0, in, 1),
                    fit |-> "Fit"]])

\* A transform that drops an unseen label instead of failing.
RECURSIVE LabelTransformLoopSkip(_, _, _, _)
LabelTransformLoopSkip(label_map, in, i, mapped_vec) ==
    IF i > Len(in) THEN Ok(mapped_vec)
    ELSE IF in[i] \in DOMAIN label_map
         THEN LabelTransformLoopSkip(label_map, in, i + 1,
                                     Append(mapped_vec, label_map[in[i]]))
         ELSE LabelTransformLoopSkip(label_map, in, i + 1, mapped_vec)

\* A transform that pushes each code at the front of mapped_vec.
RECURSIVE LabelTransformLoopPrepend(_, _, _, _)
LabelTransformLoopPrepend(label_map, in, i, mapped_vec) ==
    IF i > Len(in) THEN Ok(mapped_vec)
    ELSE IF in[i] \in DOMAIN label_map
         THEN LabelTransformLoopPrepend(label_map, in, i + 1,
                                        <<label_map[in[i]]>> \o mapped_vec)
         ELSE Err("InvalidState")

\* The for loop of transform: the mapped prefix, or the early return.
RECURSIVE LabelTransformLoop(_, _, _, _)
LabelTransformLoop(label_map, in, i, mapped_vec) ==
    IF i > Len(in) THEN Ok(mapped_vec)
    ELSE IF in[i] \in DOMAIN label_map
         THEN LabelTransformLoop(label_map, in, i + 1,
                                 Append(mapped_vec, label_map[in[i]]))
         ELSE Err("InvalidState")

\* A transform that uses its &mut self to learn the labels it has not seen.
RECURSIVE LabelTransformLoopLearn(_, _, _, _)
LabelTransformLoopLearn(label_map, in, i, mapped_vec) ==
    IF i > Len(in) THEN [label_map |-> label_map, result |-> Ok(mapped_vec)]
    ELSE LET m == IF in[i] \in DOMAIN label_map THEN label_map
                  ELSE MapInsert(label_map, in[i], Cardinality(DOMAIN label_map))
         IN LabelTransformLoopLearn(m, in, i + 1, Append(mapped_vec, m[in[i]]))

LabelEncoder_transform_Learn(self, in) ==
    LET r == LabelTransformLoopLearn(self.label_map, in, 1, <<>>)
    IN [self |-> [self EXCEPT !.label_map = r.label_map], result |-> r.result]

\* transform(&mut self, input): the fitter after the call and the result.
LabelEncoder_transform(self, in) ==
    [self |-> self, result |-> LabelTransformLoop(self.label_map, in, 1, <<>>)]

LabelInputs == SeqsUpTo(Labels, MaxLen)

-----------------------------------------------------------------------------
(* dataset/mod.rs: the values the encoders and the scaler work on.         *)

Numeric(n) == [t |-> "Numeric", num |-> n, cat |-> ""]

Categorical(c) == [t |-> "Categorical", num |-> 0, cat |-> c]

\* Dataset::new and MixedDataset::new store their four arguments as given.
Dataset_new(data, target, data_columns, target_column) ==
    [data |-> data, target |-> target,
     data_columns |-> data_columns, target_column |-> target_column]

MixedDataset_new(data, target, data_columns, target_column) ==
    [data |-> data, target |-> target,
     data_columns |-> data_columns, target_column |-> target_column]

\* rulinalg's Matrix::new(rows, cols, data) asserts rows * cols = data.len().
Matrix_new(rows, cols, data) ==
    IF rows * cols = Len(data)
    THEN Ok([rows |-> rows, cols |-> cols, data |-> data])
    ELSE Panic

-----------------------------------------------------------------------------
(* encoders/onehotencoder.rs                                               *)

OneHotEncoderFitter_default ==
    [category_map |-> EmptyMap, fit |-> FitStatus_default]

\* An inner loop that takes the row number, not map.len(), as the index.
RECURSIVE OneHotColumnLoopRowIndex(_, _, _, _)
OneHotColumnLoopRowIndex(map, data, col_index, r) ==
    IF r > Len(data) THEN Ok(map)
    ELSE IF col_index > Len(data[r]) THEN Panic
    ELSE LET cell == data[r][col_index] IN
         IF cell.t = "Categorical" /\ cell.cat \notin DOMAIN map
         THEN OneHotColumnLoopRowIndex(MapInsert(map, cell.cat, r - 1),
                                       data, col_index, r + 1)
         ELSE OneHotColumnLoopRowIndex(map, data, col_index, r + 1)

\* The inner loop of fit over the rows of one column, from row r on:
\* map.entry(value).or_insert_with(|| map.len()).  Indexing a row that has
\* no cell col_index aborts.
RECURSIVE OneHotColumnLoop(_, _, _, _)
OneHotColumnLoop(map, data, col_index, r) ==
    IF r > Len(data) THEN Ok(map)
    ELSE IF col_index > Len(data[r]) THEN Panic
    ELSE LET cell == data[r][col_index] IN
         IF cell.t = "Categorical" /\ cell.cat \notin DOMAIN map
         THEN OneHotColumnLoop(MapInsert(map, cell.cat, Cardinality(DOMAIN map)),
                               data, col_index, r + 1)
         ELSE OneHotColumnLoop(map, data, col_index, r + 1)

\* The outer loop of fit over data_columns, from column col_index on.
RECURSIVE OneHotFitLoop(_, _, _)
OneHotFitLoop(category_map, in, col_index) ==
    IF col_index > Len(in.data_columns) THEN Ok(category_map)
    ELSE LET m == OneHotColumnLoop(EmptyMap, in.data, col_index, 1) IN
         IF m.tag # "Ok" THEN Panic
         ELSE IF DOMAIN m.val # {}
         THEN OneHotFitLoop(MapInsert(category_map, in.data_columns[col_index], m.val),
                            in, col_index + 1)
         ELSE OneHotFitLoop(category_map, in, col_index + 1)

\* fit(mut self, input).
OneHotEncoderFitter_fit(self, in) ==
    LET m == OneHotFitLoop(EmptyMap, in, 1) IN
    IF m.tag # "Ok" THEN Panic
    ELSE Ok([fitter |-> [category_map |-> m.val, fit |-> "Fit"]])

\* A sort with the comparison the wrong way round.
SortedCategoriesDescending(map) ==
    LET n == Cardinality(DOMAIN map) IN
    CHOOSE s \in [1..n -> DOMAIN map] :
        /\ \A i, j \in 1..n : i # j => s[i] # s[j]
        /\ \A i, j \in 1..n : i < j => map[s[i]] >= map[s[j]]

\* map.iter().collect() followed by sort_by_key(index): the categories in
\* non-decreasing index order.
SortedCategories(map) ==
    LET n == Cardinality(DOMAIN map) IN
    CHOOSE s \in [1..n -> DOMAIN map] :
        /\ \A i, j \in 1..n : i # j => s[i] # s[j]
        /\ \A i, j \in 1..n : i < j => map[s[i]] <= map[s[j]]

\* The names one column contributes.
RECURSIVE PrefixedNames(_, _, _)
PrefixedNames(col_name, cats, i) ==
    IF i > Len(cats) THEN <<>>
    ELSE <<col_name \o "_" \o cats[i]>> \o PrefixedNames(col_name, cats, i + 1)

\* The first loop of transform: new_column_names.
RECURSIVE OneHotColumnNames(_, _, _)
OneHotColumnNames(category_map, data_columns, i) ==
    IF i > Len(data_columns) THEN <<>>
    ELSE LET col_name == data_columns[i] IN
         (IF col_name \in DOMAIN category_map
          THEN PrefixedNames(col_name, SortedCategories(category_map[col_name]), 1)
          ELSE <<col_name>>)
         \o OneHotColumnNames(category_map, data_columns, i + 1)

\* An encoding that takes index 0 for a category that is no key.
EncodedUnseenAsFirst(map, val) ==
    [i \in 1..Cardinality(DOMAIN map) |->
        IF (IF val \in DOMAIN map THEN map[val] ELSE 0) = i - 1 THEN 1 ELSE 0]

\* vec![0.0; map.len()] with encoded[index] = 1.0 when val is a key.
Encoded(map, val) ==
    [i \in 1..Cardinality(DOMAIN map) |->
        IF val \in DOMAIN map /\ map[val] = i - 1 THEN 1 ELSE 0]

\* A row loop that pushes the indicator 1.0 for a numeric cell.
RECURSIVE OneHotRowNumericAsIndicator(_, _, _, _)
OneHotRowNumericAsIndicator(category_map, data_columns, row, col_index) ==
    IF col_index > Len(row) THEN Ok(<<>>)
    ELSE IF col_index > Len(data_columns) THEN Panic
    ELSE LET col_name == data_columns[col_index]
             value == row[col_index]
             rest == OneHotRowNumericAsIndicator(category_map, data_columns, row,
                                                 col_index + 1)
             here == IF value.t = "Categorical"
                     THEN IF col_name \in DOMAIN category_map
                          THEN Encoded(category_map[col_name], value.cat)
                          ELSE <<>>
                     ELSE <<1>>
         IN IF rest.tag # "Ok" THEN Panic ELSE Ok(here \o rest.val)

\* One row of the second loop, from cell col_index on.  Indexing
\* data_columns past its end aborts.
RECURSIVE OneHotRow(_, _, _, _)
OneHotRow(category_map, data_columns, row, col_index) ==
    IF col_index > Len(row) THEN Ok(<<>>)
    ELSE IF col_index > Len(data_columns) THEN Panic
    ELSE LET col_name == data_columns[col_index]
             value == row[col_index]
             rest == OneHotRow(category_map, data_columns, row, col_index + 1)
             here == IF value.t = "Categorical"
                     THEN IF col_name \in DOMAIN category_map
                          THEN Encoded(category_map[col_name], value.cat)
                          ELSE <<>>
                     ELSE <<value.num>>
         IN IF rest.tag # "Ok" THEN Panic ELSE Ok(here \o rest.val)

\* The second loop of transform: transformed_data.
RECURSIVE OneHotRows(_, _, _, _)
OneHotRows(category_map, data_columns, data, r) ==
    IF r > Len(data) THEN Ok(<<>>)
    ELSE LET new_row == OneHotRow(category_map, data_columns, data[r], 1)
             rest == OneHotRows(category_map, data_columns, data, r + 1)
         IN IF new_row.tag # "Ok" \/ rest.tag # "Ok" THEN Panic
            ELSE Ok(<<new_row.val>> \o rest.val)

\* into_iter().flatten().collect()
RECURSIVE Flatten(_)
Flatten(rows) ==
    IF rows = <<>> THEN <<>> ELSE Head(rows) \o Flatten(Tail(rows))

\* The tail of transform: dimensions, matrix, dataset.  transformed_data[0]
\* aborts when there is no row.
OneHotAssemble(transformed_data, new_column_names, in) ==
    IF Len(transformed_data) = 0 THEN Panic
    ELSE LET row_dimension == Len(transformed_data)
             column_dimension == Len(transformed_data[1])
             data == Matrix_new(row_dimension, column_dimension,
                                Flatten(transformed_data))
         IN IF data.tag # "Ok" THEN Panic
            ELSE Ok(Dataset_new(data.val, in.target, new_column_names,
                                in.target_column))

\* transform(&mut self, input): the fitter after the call and the result.
OneHotEncoder_transform(self, in) ==
    LET new_column_names == OneHotColumnNames(self.category_map, in.data_columns, 1)
        transformed_data == OneHotRows(self.category_map, in.data_columns, in.data, 1)
    IN [self |-> self,
        result |-> IF transformed_data.tag # "Ok" THEN Panic
                   ELSE OneHotAssemble(transformed_data.val, new_column_names, in)]

\* The mixed datasets explored: every cell numeric or categorical, every row
\* as long as data_columns, one target per row.
NumericValues == {1, 2}

Categories == {"a", "b"}

Cells == {Numeric(n) : n \in NumericValues} \cup {Categorical(c) : c \in Categories}

ColumnLayouts == {<<"x">>, <<"x", "y">>, <<"x", "x">>}

TargetOf(r) == [i \in 1..r |-> IF i % 2 = 1 THEN "u" ELSE "v"]

MixedDatasets ==
    UNION { { MixedDataset_new(d, TargetOf(r), cols, "t") :
                d \in [1..r -> [1..Len(cols) -> Cells]] } :
            r \in 0..MaxRows, cols \in ColumnLayouts }

-----------------------------------------------------------------------------
(* f64 arithmetic, on a binary floating-point format of the IEEE 754 form  *)
(* with MantissaBits significant bits: the finite values are m * 2^e with  *)
(* |m| < 2^MantissaBits and -SubnormalExponent <= e <= MaxExponent, every  *)
(* operation rounds its exact result to the nearest value (ties to the     *)
(* even mantissa), overflows to an infinity and yields NaN where IEEE      *)
(* does.  The sign of zero is not kept: no zero produced here is divided   *)
(* by.  A value is a record; a finite one is kept with m odd (or m = 0,    *)
(* e = 0), so equal numbers are equal records.                             *)

MantissaBits == 4
MaxExponent == 3
SubnormalExponent == 5

RECURSIVE Pow2(_)
Pow2(k) == IF k <= 0 THEN 1 ELSE 2 * Pow2(k - 1)

Abs(n) == IF n < 0 THEN -n ELSE n

Inf == [c |-> "inf", m |-> 1, e |-> 0]

NegInf == [c |-> "inf", m |-> -1, e |-> 0]

NaN == [c |-> "nan", m |-> 0, e |-> 0]

FZero == [c |-> "fin", m |-> 0, e |-> 0]

IsFin(a) == a.c = "fin"

IsNaN(a) == a.c = "nan"

IsInf(a) == a.c = "inf"

Sign(a) == IF a.m < 0 THEN -1 ELSE IF a.m > 0 THEN 1 ELSE 0

\* The record of m * 2^e, for |m| < 2^MantissaBits within the exponent range.
RECURSIVE Fin(_, _)
Fin(m, e) ==
    IF m = 0 THEN FZero
    ELSE IF m % 2 = 0 THEN Fin(m \div 2, e + 1)
    ELSE [c |-> "fin", m |-> m, e |-> e]

\* n / d < 2^k, for n, d > 0.
LessPow2(n, d, k) ==
    IF k >= 0 THEN n < d * Pow2(k) ELSE n * Pow2(-k) < d

\* The exponent of the unit in the last place of the rounded n / d.
RECURSIVE UlpExponent(_, _, _)
UlpExponent(n, d, e) ==
    IF LessPow2(n, d, MantissaBits + e) \/ e > MaxExponent THEN e
    ELSE UlpExponent(n, d, e + 1)

\* sign * n / d (n >= 0, d > 0) rounded to the nearest value, ties to even.
RoundRat(sign, n, d) ==
    IF n = 0 THEN FZero
    ELSE LET e == UlpExponent(n, d, -SubnormalExponent)
             num == IF e >= 0 THEN n ELSE n * Pow2(-e)
             den == IF e >= 0 THEN d * Pow2(e) ELSE d
             q == num \div den
             r == num % den
             up == (2 * r > den) \/ (2 * r = den /\ q % 2 = 1)
             m == IF up THEN q + 1 ELSE q
         IN IF e > MaxExponent \/ (e = MaxExponent /\ m >= Pow2(MantissaBits))
            THEN (IF sign < 0 THEN NegInf ELSE Inf)
            ELSE Fin(sign * m, e)

\* f64::MAX and f64::MIN.
F64_MAX == Fin(Pow2(MantissaBits) - 1, MaxExponent)

F64_MIN == Fin(-(Pow2(MantissaBits) - 1), MaxExponent)

\* The whole number n as a float.
FInt(n) == RoundRat(IF n < 0 THEN -1 ELSE 1, Abs(n), 1)

FNeg(a) == [a EXCEPT !.m = -a.m]

\* a * b
FMul(a, b) ==
    IF IsNaN(a) \/ IsNaN(b) THEN NaN
    ELSE IF IsInf(a) \/ IsInf(b)
         THEN (IF Sign(a) * Sign(b) = 0 THEN NaN
               ELSE IF Sign(a) * Sign(b) < 0 THEN NegInf ELSE Inf)
    ELSE LET m == a.m * b.m
             e == a.e + b.e
         IN RoundRat(IF m < 0 THEN -1 ELSE 1,
                     IF e >= 0 THEN Abs(m) * Pow2(e) ELSE Abs(m),
                     IF e >= 0 THEN 1 ELSE Pow2(-e))

\* a + b
FAdd(a, b) ==
    IF IsNaN(a) \/ IsNaN(b) THEN NaN
    ELSE IF IsInf(a) /\ IsInf(b) THEN (IF a.m = b.m THEN a ELSE NaN)
    ELSE IF IsInf(a) THEN a
    ELSE IF IsInf(b) THEN b
    ELSE LET e == IF a.e < b.e THEN a.e ELSE b.e
             m == a.m * Pow2(a.e - e) + b.m * Pow2(b.e - e)
         IN RoundRat(IF m < 0 THEN -1 ELSE 1,
                     IF e >= 0 THEN Abs(m) * Pow2(e) ELSE Abs(m),
                     IF e >= 0 THEN 1 ELSE Pow2(-e))

\* a - b
FSub(a, b) == FAdd(a, FNeg(b))

\* a / b
FDiv(a, b) ==
    IF IsNaN(a) \/ IsNaN(b) THEN NaN
    ELSE IF IsInf(a)
         THEN (IF IsInf(b) THEN NaN
               ELSE IF a.m * (IF b.m < 0 THEN -1 ELSE 1) < 0 THEN NegInf ELSE Inf)
    ELSE IF IsInf(b) THEN FZero
    ELSE IF b.m = 0
         THEN (IF a.m = 0 THEN NaN ELSE IF a.m < 0 THEN NegInf ELSE Inf)
    ELSE LET e == a.e - b.e
             s == IF Sign(a) * Sign(b) < 0 THEN -1 ELSE 1
         IN RoundRat(s,
                     IF e >= 0 THEN Abs(a.m) * Pow2(e) ELSE Abs(a.m),
                     IF e >= 0 THEN Abs(b.m) ELSE Abs(b.m) * Pow2(-e))

\* a < b
FLt(a, b) ==
    IF IsNaN(a) \/ IsNaN(b) THEN FALSE
    ELSE IF IsInf(a) THEN a.m < 0 /\ ~(IsInf(b) /\ b.m < 0)
    ELSE IF IsInf(b) THEN b.m > 0
    ELSE LET e == IF a.e < b.e THEN a.e ELSE b.e
         IN a.m * Pow2(a.e - e) < b.m * Pow2(b.e - e)

\* a > b
FGt(a, b) == FLt(b, a)

-----------------------------------------------------------------------------
(* scalers/minmaxscaler.rs                                                 *)

\* MinMaxFitter::new(min, max).
MinMaxFitter_new(min, max) ==
    [num_featues |-> 0, scaled_min |-> min, scaled_max |-> max,
     min_values |-> <<>>, max_values |-> <<>>,
     scale_factors |-> <<>>, constant_factors |-> <<>>,
     fit |-> "NotFit"]

MinMaxFitter_default ==
    [num_featues |-> 0, scaled_min |-> FInt(0), scaled_max |-> FInt(1),
     min_values |-> <<>>, max_values |-> <<>>,
     scale_factors |-> <<>>, constant_factors |-> <<>>,
     fit |-> "NotFit"]

\* One row of row_iter(): the cols cells of row r of the row-major buffer.
MatrixRow(mat, r) == [i \in 1..mat.cols |-> mat.data[(r - 1) * mat.cols + i]]

\* The first loop of fit over the cells in row-major order, from cell k on;
\* acc holds min_values and max_values.  A cell in a column past
\* num_features indexes the vectors out of bounds and aborts.
RECURSIVE MinMaxScan(_, _, _)
MinMaxScan(acc, mat, k) ==
    IF k > Len(mat.data) THEN Ok(acc)
    ELSE LET idx == ((k - 1) % mat.cols) + 1
             value == mat.data[k]
         IN IF idx > Len(acc.min) THEN Panic
            ELSE MinMaxScan(
                   [min |-> IF FLt(value, acc.min[idx])
                            THEN [acc.min EXCEPT ![idx] = value] ELSE acc.min,
                    max |-> IF FGt(value, acc.max[idx])
                            THEN [acc.max EXCEPT ![idx] = value] ELSE acc.max],
                   mat, k + 1)

\* The second loop of fit: one feature's scale factor.
ScaleFactor(self, min_value, max_value) ==
    FDiv(FSub(self.scaled_max, self.scaled_min), FSub(max_value, min_value))

\* The second loop of fit: one feature's constant factor.
ConstantFactor(self, min_value, scale_factor) ==
    FSub(self.scaled_min, FMul(min_value, scale_factor))

\* fit(mut self, input).
MinMaxFitter_fit(self, in) ==
    LET num_features == Len(in.data_columns)
        scan == MinMaxScan([min |-> [i \in 1..num_features |-> F64_MAX],
                            max |-> [i \in 1..num_features |-> F64_MIN]],
                           in.data, 1)
    IN IF scan.tag # "Ok" THEN Panic
       ELSE LET min_values == scan.val.min
                max_values == scan.val.max
                scale_factors ==
                    [i \in 1..num_features |->
                        ScaleFactor(self, min_values[i], max_values[i])]
                constant_factors ==
                    [i \in 1..num_features |->
                        ConstantFactor(self, min_values[i], scale_factors[i])]
            IN Ok([fitter |->
                     [num_featues |-> num_features,
                      scaled_min |-> self.scaled_min,
                      scaled_max |-> self.scaled_max,
                      min_values |-> min_values,
                      max_values |-> max_values,
                      scale_factors |-> scale_factors,
                      constant_factors |-> constant_factors,
                      fit |-> "Fit"]])

\* The loop of transform over the cells in row-major order, from cell k on.
RECURSIVE MinMaxScale(_, _, _)
MinMaxScale(self, mat, k) ==
    IF k > Len(mat.data) THEN Ok(<<>>)
    ELSE LET idx == ((k - 1) % mat.cols) + 1
             value == mat.data[k]
         IN IF idx > Len(self.scale_factors) \/ idx > Len(self.constant_factors)
            THEN Panic
            ELSE LET scaled_value == FAdd(FMul(value, self.scale_factors[idx]),
                                          self.constant_factors[idx])
                     rest == MinMaxScale(self, mat, k + 1)
                 IN IF rest.tag # "Ok" THEN Panic
                    ELSE Ok(<<scaled_value>> \o rest.val)

\* transform without the comparison of the feature counts.
MinMaxScaler_transform_NoCheck(self, in) ==
    [self |-> self,
     result |->
        LET scaled_data == MinMaxScale(self, in.data, 1) IN
        IF scaled_data.tag # "Ok" THEN Panic
        ELSE LET scaled_matrix == Matrix_new(in.data.rows, self.num_featues,
                                             scaled_data.val)
             IN IF scaled_matrix.tag # "Ok" THEN Panic
                ELSE Ok(Dataset_new(scaled_matrix.val, in.target,
                                    in.data_columns, in.target_column))]

\* transform(&mut self, input): the fitter after the call and the result.
MinMaxScaler_transform(self, in) ==
    [self |-> self,
     result |->
        IF self.num_featues # Len(in.data_columns) THEN Err("InvalidState")
        ELSE LET scaled_data == MinMaxScale(self, in.data, 1) IN
             IF scaled_data.tag # "Ok" THEN Panic
             ELSE LET scaled_matrix == Matrix_new(in.data.rows, self.num_featues,
                                                  scaled_data.val)
                  IN IF scaled_matrix.tag # "Ok" THEN Panic
                     ELSE Ok(Dataset_new(scaled_matrix.val, in.target,
                                         in.data_columns, in.target_column))]

\* The numeric datasets explored: a rows x cols matrix of f64 cells, the
\* column names (as many as the matrix has columns, or not), one target per
\* row.
FeatureValues == {FInt(2), FInt(5), Inf}

ScaledRanges == {<<FInt(-1), FInt(1)>>}

MatrixWidths == {1, 2}

Matrices ==
    UNION { { [rows |-> r, cols |-> c, data |-> d] :
                d \in [1..(r * c) -> FeatureValues] } :
            r \in 0..MaxRows, c \in MatrixWidths }

Datasets ==
    { Dataset_new(mat, TargetOf(mat.rows), cols, "t") :
        mat \in Matrices, cols \in {<<"x">>, <<"x", "y">>} }

-----------------------------------------------------------------------------
(* dataset/mod.rs: CSV ingestion.                                          *)
(*                                                                         *)
(* A file is its header row and its data records, each a sequence of       *)
(* field texts, as the csv reader hands them over; a path that cannot be   *)
(* opened is NoValue.  The reader is built with has_headers(true) and is   *)
(* not flexible: a record whose field count differs from the header's is   *)
(* a read error.                                                           *)

\* The field texts explored: one that parses as a number, one that does not.
Texts == {"1", "a"}

\* <f64 as FromStr>::from_str and str::parse::<f64>.
f64_from_str(text) ==
    IF text = "1" THEN Ok(FInt(1)) ELSE Err("ParseFloatError")

\* The target element types explored.
TargetTypes == {"String", "f64"}

\* Y::from_str for the target type ty: String::from_str cannot fail.
Y_from_str(ty, text) == IF ty = "String" THEN Ok(text) ELSE f64_from_str(text)

\* process_headers as if a header named like the target were always there.
process_headers_NoCheck(file, target_column) ==
    Ok([headers |-> file.headers,
        target_index |->
            IF \E i \in 1..Len(file.headers) : file.headers[i] = target_column
            THEN CHOOSE i \in 1..Len(file.headers) :
                     /\ file.headers[i] = target_column
                     /\ \A j \in 1..(i - 1) : file.headers[j] # target_column
            ELSE 1])

\* process_headers(rdr, target_column): the header row and the position of
\* the first header equal to target_column.
process_headers(file, target_column) ==
    IF \E i \in 1..Len(file.headers) : file.headers[i] = target_column
    THEN Ok([headers |-> file.headers,
             target_index |->
                 CHOOSE i \in 1..Len(file.headers) :
                     /\ file.headers[i] = target_column
                     /\ \A j \in 1..(i - 1) : file.headers[j] # target_column])
    ELSE Err("InvalidData")

\* headers.iter().filter(|&h| h != target_column).
FilteredHeaders(headers, target_column) ==
    SelectSeq(headers, LAMBDA h : h # target_column)

\* Dataset::from_csv, the loop over the fields of one record from field
\* index on; acc holds record_features and the target values pushed.
RECURSIVE DatasetFieldLoop(_, _, _, _, _)
DatasetFieldLoop(record, target_index, ty, index, acc) ==
    IF index > Len(record) THEN Ok(acc)
    ELSE IF index = target_index
         THEN LET record_target == Y_from_str(ty, record[index]) IN
              IF record_target.tag # "Ok" THEN Err("InvalidData")
              ELSE DatasetFieldLoop(record, target_index, ty, index + 1,
                     [acc EXCEPT !.target_values = Append(@, record_target.val)])
         ELSE LET feature_value == f64_from_str(record[index]) IN
              IF feature_value.tag # "Ok" THEN Err("InvalidData")
              ELSE DatasetFieldLoop(record, target_index, ty, index + 1,
                     [acc EXCEPT !.record_features = Append(@, feature_value.val)])

\* Dataset::from_csv, the loop over rdr.records() from record k on.
RECURSIVE DatasetRecordLoop(_, _, _, _, _, _)
DatasetRecordLoop(file, target_index, ty, k, data_rows, target_values) ==
    IF k > Len(file.records)
    THEN [result |-> Ok([data_rows |-> data_rows, target_values |-> target_values]),
          records_read |-> k - 1]
    ELSE IF Len(file.records[k]) # Len(file.headers)
         THEN [result |-> Err("InvalidData"), records_read |-> k]
         ELSE LET fields == DatasetFieldLoop(file.records[k], target_index, ty, 1,
                              [record_features |-> <<>>, target_values |-> target_values])
              IN IF fields.tag # "Ok"
                 THEN [result |-> Err("InvalidData"), records_read |-> k]
                 ELSE DatasetRecordLoop(file, target_index, ty, k + 1,
                        Append(data_rows, fields.val.record_features),
                        fields.val.target_values)

\* Dataset::from_csv, the last statement: Ok(Dataset::new(..)) once Matrix::new
\* has returned.
DatasetOfMatrix(data, target_values, data_columns, target_column) ==
    IF data.tag # "Ok" THEN Panic
    ELSE Ok(Dataset_new(data.val, target_values, data_columns, target_column))

\* Dataset::from_csv after the record loop: the matrix dimensions are taken
\* from data_rows and its first row, then the Dataset is built.
DatasetAssemble(loop, headers, target_column) ==
    IF loop.result.tag # "Ok" THEN loop
    ELSE IF loop.result.val.data_rows = <<>>
         THEN [result |-> Panic, records_read |-> loop.records_read]
         ELSE [result |->
                 DatasetOfMatrix(
                   Matrix_new(Len(loop.result.val.data_rows),
                              Len(loop.result.val.data_rows[1]),
                              Flatten(loop.result.val.data_rows)),
                   loop.result.val.target_values,
                   FilteredHeaders(headers, target_column),
                   target_column),
               records_read |-> loop.records_read]

\* Dataset::from_csv from the outcome hdr of process_headers on.
DatasetRead(file, hdr, target_column, ty) ==
    IF hdr.tag # "Ok" THEN [result |-> Err("InvalidData"), records_read |-> 0]
    ELSE DatasetAssemble(
           DatasetRecordLoop(file, hdr.val.target_index, ty, 1, <<>>, <<>>),
           hdr.val.headers, target_column)

\* Dataset::from_csv(file_path, target_column) for target element type ty:
\* the result and how many data records were taken from the reader.
Dataset_from_csv(file, target_column, ty) ==
    IF file = NoValue THEN [result |-> Err("InvalidData"), records_read |-> 0]
    ELSE DatasetRead(file, process_headers(file, target_column), target_column, ty)

\* MixedDataset::from_csv, one field's data_value, typed by the text.
MixedDataValueByText(numeric_idxs, index, feature) ==
    LET parsed == f64_from_str(feature) IN
    IF parsed.tag = "Ok" THEN Ok(Numeric(parsed.val)) ELSE Ok(Categorical(feature))

\* MixedDataset::from_csv, one field's data_value.
MixedDataValue(numeric_idxs, index, feature) ==
    IF index \in numeric_idxs
    THEN LET parsed == f64_from_str(feature) IN
         IF parsed.tag = "Ok" THEN Ok(Numeric(parsed.val)) ELSE Err("InvalidData")
    ELSE Ok(Categorical(feature))

\* MixedDataset::from_csv, the loop over the fields of one record.
RECURSIVE MixedFieldLoop(_, _, _, _, _, _)
MixedFieldLoop(record, target_index, numeric_idxs, ty, index, acc) ==
    IF index > Len(record) THEN Ok(acc)
    ELSE LET data_value == MixedDataValue(numeric_idxs, index, record[index]) IN
         IF data_value.tag # "Ok" THEN Err("InvalidData")
         ELSE IF index = target_index
              THEN LET record_target == Y_from_str(ty, record[index]) IN
                   IF record_target.tag # "Ok" THEN Err("InvalidData")
                   ELSE MixedFieldLoop(record, target_index, numeric_idxs, ty, index + 1,
                          [acc EXCEPT !.target_values = Append(@, record_target.val)])
              ELSE MixedFieldLoop(record, target_index, numeric_idxs, ty, index + 1,
                     [acc EXCEPT !.record_features = Append(@, data_value.val)])

\* MixedDataset::from_csv, the loop over rdr.records() from record k on.
RECURSIVE MixedRecordLoop(_, _, _, _, _, _, _)
MixedRecordLoop(file, target_index, numeric_idxs, ty, k, data_rows, target_values) ==
    IF k > Len(file.records)
    THEN [result |-> Ok([data_rows |-> data_rows, target_values |-> target_values]),
          records_read |-> k - 1]
    ELSE IF Len(file.records[k]) # Len(file.headers)
         THEN [result |-> Err("InvalidData"), records_read |-> k]
         ELSE LET fields == MixedFieldLoop(file.records[k], target_index, numeric_idxs,
                              ty, 1,
                              [record_features |-> <<>>, target_values |-> target_values])
              IN IF fields.tag # "Ok"
                 THEN [result |-> Err("InvalidData"), records_read |-> k]
                 ELSE MixedRecordLoop(file, target_index, numeric_idxs, ty, k + 1,
                        Append(data_rows, fields.val.record_features),
                        fields.val.target_values)

\* MixedDataset::from_csv after the record loop.
MixedAssemble(loop, headers, target_column) ==
    IF loop.result.tag # "Ok" THEN loop
    ELSE [result |->
            Ok(MixedDataset_new(loop.result.val.data_rows,
                 loop.result.val.target_values,
                 FilteredHeaders(headers, target_column),
                 target_column)),
          records_read |-> loop.records_read]

\* MixedDataset::from_csv from the outcome hdr of process_headers on.
MixedRead(file, hdr, target_column, numeric_columns, ty) ==
    IF hdr.tag # "Ok" THEN [result |-> Err("InvalidData"), records_read |-> 0]
    ELSE MixedAssemble(
           MixedRecordLoop(file, hdr.val.target_index,
                           {idx \in 1..Len(hdr.val.headers) :
                              hdr.val.headers[idx] \in numeric_columns},
                           ty, 1, <<>>, <<>>),
           hdr.val.headers, target_column)

\* MixedDataset::from_csv(file_path, target_column, numeric_columns).
MixedDataset_from_csv(file, target_column, numeric_columns, ty) ==
    IF file = NoValue THEN [result |-> Err("InvalidData"), records_read |-> 0]
    ELSE MixedRead(file, process_headers(file, target_column), target_column,
                   numeric_columns, ty)

\* The files explored: header rows with and without the target name "t",
\* with a repeated name; up to MaxRows records, each with as many fields as
\* the header or one fewer.
HeaderRows ==
    {<<>>, <<"x">>, <<"x", "y">>, <<"t", "x">>, <<"x", "t">>,
     <<"x", "t", "y">>, <<"x", "x", "t">>, <<"t", "x", "t">>}

RecordsFor(h) ==
    IF h = <<>> THEN {}
    ELSE [1..Len(h) -> Texts]
         \cup (IF Len(h) > 1 THEN [1..(Len(h) - 1) -> Texts] ELSE {})

CsvFiles ==
    {NoValue}
    \cup UNION { { [headers |-> h, records |-> recs] :
                     recs \in SeqsUpTo(RecordsFor(h), MaxRows) } : h \in HeaderRows }

NumericColumnSets == {{}, {"x"}, {"x", "t"}}

\* The arguments of Dataset::new explored: any matrix with any number of
\* targets up to one more than MaxRows and one or two column names.
DatasetNewArgs ==
    { [data |-> mat, target |-> TargetOf(n), data_columns |-> cols,
       target_column |-> "t"] :
        mat \in Matrices, n \in 0..(MaxRows + 1), cols \in {<<"x">>, <<"x", "y">>} }

-----------------------------------------------------------------------------
(* Dispatch on the kind of preprocessor.                                   *)

Kinds == {"label", "onehot", "minmax"}

DefaultFitters(k) ==
    CASE k = "label" -> {LabelEncoderFitter_default}
      [] k = "onehot" -> {OneHotEncoderFitter_default}
      [] k = "minmax" -> {MinMaxFitter_default}
                         \cup {MinMaxFitter_new(r[1], r[2]) : r \in ScaledRanges}

Inputs(k) ==
    CASE k = "label" -> LabelInputs
      [] k = "onehot" -> MixedDatasets
      [] k = "minmax" -> Datasets

FitCall(k, self, in) ==
    CASE k = "label" -> LabelEncoderFitter_fit(self, in)
      [] k = "onehot" -> OneHotEncoderFitter_fit(self, in)
      [] k = "minmax" -> MinMaxFitter_fit(self, in)

TransformCall(k, self, in) ==
    CASE k = "label" -> LabelEncoder_transform(self, in)
      [] k = "onehot" -> OneHotEncoder_transform(self, in)
      [] k = "minmax" -> MinMaxScaler_transform(self, in)

Cloneable(k) == k \in {"label", "onehot"}

fit_status(self) == self.fit

-----------------------------------------------------------------------------
(* Callers of one shared transformer.  transform takes &mut self, so a     *)
(* caller holds the exclusive borrow of the transformer for the whole call *)
(* and no two calls overlap; an abort inside the call ends the borrow.     *)

Callers == 1..NumCallers

IdleCall == [pc |-> "idle", input |-> NoValue, output |-> NoValue]

NoCalls == [c \in Callers |-> IdleCall]

\* The inputs the callers of a shared transformer pass to it.
CallerInputs(k) ==
    CASE k = "label" -> {<<>>, <<"a">>, <<"b", "a">>, <<"c", "c">>}
      [] k = "onehot" ->
           {MixedDataset_new(<<>>, <<>>, <<"x">>, "t"),
            MixedDataset_new(<<<<Categorical("a")>>>>, TargetOf(1), <<"x">>, "t"),
            MixedDataset_new(<<<<Categorical("b"), Numeric(1)>>>>, TargetOf(1),
                             <<"x", "y">>, "t"),
            MixedDataset_new(<<<<Numeric(2)>>, <<Categorical("a")>>>>, TargetOf(2),
                             <<"x">>, "t")}
      [] k = "minmax" ->
           {Dataset_new([rows |-> 1, cols |-> 1, data |-> <<FInt(2)>>], TargetOf(1),
                        <<"x">>, "t"),
            Dataset_new([rows |-> 1, cols |-> 2, data |-> <<FInt(5), FInt(2)>>],
                        TargetOf(1), <<"x", "y">>, "t"),
            Dataset_new([rows |-> 1, cols |-> 2, data |-> <<FInt(5), Inf>>],
                        TargetOf(1), <<"x">>, "t"),
            Dataset_new([rows |-> 0, cols |-> 1, data |-> <<>>], <<>>, <<"x">>, "t")}

-----------------------------------------------------------------------------
(* The life of one preprocessor value.                                     *)

Init ==
    /\ kind \in Kinds
    /\ phase = "none"
    /\ fitter = NoValue
    /\ op = "none"
    /\ input = NoValue
    /\ output = NoValue
    /\ fitted = NoValue
    /\ on_fit_input = FALSE
    /\ fit_self = NoValue
    /\ records_read = 0
    /\ calls = NoCalls
    /\ borrow = 0

\* Default::default() / MinMaxFitter::new.
New ==
    /\ phase = "none"
    /\ \E f \in DefaultFitters(kind) :
         /\ fitter' = f
    /\ phase' = "fitter"
    /\ op' = "new"
    /\ input' = NoValue
    /\ output' = NoValue
    /\ fitted' = NoValue
    /\ on_fit_input' = FALSE
    /\ fit_self' = NoValue
    /\ UNCHANGED <<kind, records_read, calls, borrow>>

\* fitter.fit(&input): the fitter is moved into the call.
Fit ==
    /\ phase = "fitter"
    /\ \E in \in Inputs(kind) :
         LET r == FitCall(kind, fitter, in) IN
           /\ input' = in
           /\ output' = r
           /\ IF r.tag = "Ok"
              THEN /\ phase' = "transformer"
                   /\ fitter' = r.val.fitter
                   /\ fitted' = r.val.fitter
              ELSE /\ phase' = "none"
                   /\ fitter' = NoValue
                   /\ fitted' = NoValue
    /\ op' = "fit"
    /\ on_fit_input' = FALSE
    /\ fit_self' = fitter
    /\ UNCHANGED <<kind, records_read, calls, borrow>>

\* transformer.transform(&input), right after fit on the input fit was given,
\* or on any input once the caller holds no earlier call's values.
Transform ==
    /\ phase = "transformer"
    /\ op \in {"fit", "idle"}
    /\ \E in \in (IF op = "fit" THEN {input} ELSE Inputs(kind)) :
         LET r == TransformCall(kind, fitter, in) IN
           /\ input' = in
           /\ output' = r.result
           /\ fitter' = r.self
    /\ op' = "transform"
    /\ on_fit_input' = (op = "fit")
    /\ fit_self' = NoValue
    /\ UNCHANGED <<kind, phase, fitted, records_read, calls, borrow>>

\* The caller lets go of the last call's argument and result.
Release ==
    /\ phase = "transformer"
    /\ op \in {"fit", "transform"}
    /\ op' = "idle"
    /\ input' = NoValue
    /\ output' = NoValue
    /\ on_fit_input' = FALSE
    /\ fit_self' = NoValue
    /\ UNCHANGED <<kind, phase, fitter, fitted, records_read, calls, borrow>>

\* transformer.fitter().clone(): a fitter value that carries fitted state.
CloneFitter ==
    /\ phase = "transformer"
    /\ Cloneable(kind)
    /\ op = "idle"
    /\ phase' = "fitter"
    /\ op' = "clone"
    /\ UNCHANGED <<kind, fit_self, fitter, input, output, fitted, on_fit_input, records_read,
                   calls, borrow>>

Next == New \/ Fit \/ Transform \/ Release \/ CloneFitter

\* Every preprocessor.
Spec == Init /\ [][Next]_vars

\* The label encoder alone.
InitLabel == Init /\ kind = "label"

SpecLabel == InitLabel /\ [][Next]_vars

\* The one-hot encoder alone.
InitOneHot == Init /\ kind = "onehot"

SpecOneHot == InitOneHot /\ [][Next]_vars

\* The min-max scaler alone; MinMaxFitter derives no Clone, so a fitter held
\* by a scaler is never fitted again.
InitMinMax == Init /\ kind = "minmax"

NextMinMax == New \/ Fit \/ Transform \/ Release

SpecMinMax == InitMinMax /\ [][NextMinMax]_vars

\* The fitted transformer is handed to the callers that share it.
Share ==
    /\ phase = "transformer"
    /\ op = "fit"
    /\ phase' = "shared"
    /\ op' = "share"
    /\ input' = NoValue
    /\ output' = NoValue
    /\ fit_self' = NoValue
    /\ UNCHANGED <<kind, fitter, fitted, on_fit_input, records_read, calls, borrow>>

\* Caller c enters transform(&mut self, &input): it takes the borrow.
BeginTransform(c) ==
    /\ phase = "shared"
    /\ calls[c].pc = "idle"
    /\ borrow = 0
    /\ \E in \in CallerInputs(kind) :
         calls' = [calls EXCEPT ![c] = [pc |-> "running", input |-> in,
                                        output |-> NoValue]]
    /\ borrow' = c
    /\ UNCHANGED <<kind, fit_self, phase, fitter, op, input, output, fitted, on_fit_input,
                   records_read>>

\* Caller c's transform runs to its end: it returns or aborts, and the
\* borrow ends.
EndTransform(c) ==
    /\ phase = "shared"
    /\ calls[c].pc = "running"
    /\ borrow = c
    /\ LET r == TransformCall(kind, fitter, calls[c].input) IN
         /\ fitter' = r.self
         /\ calls' = [calls EXCEPT ![c].pc = "done", ![c].output = r.result]
    /\ borrow' = 0
    /\ UNCHANGED <<kind, fit_self, phase, op, input, output, fitted, on_fit_input, records_read>>

\* Caller c lets go of its call's argument and result.
DropCall(c) ==
    /\ phase = "shared"
    /\ calls[c].pc = "done"
    /\ calls' = [calls EXCEPT ![c] = IdleCall]
    /\ UNCHANGED <<kind, fit_self, phase, fitter, op, input, output, fitted, on_fit_input,
                   records_read, borrow>>

NextShared ==
    \/ New
    \/ Fit
    \/ Share
    \/ \E c \in Callers : BeginTransform(c)
    \/ \E c \in Callers : EndTransform(c)
    \/ \E c \in Callers : DropCall(c)

\* One transformer of any kind, fitted once and then used by several callers.
SpecShared == Init /\ [][NextShared]_vars

\* The dataset module alone: a caller builds and ingests datasets.
InitDataset ==
    /\ kind = "dataset"
    /\ phase = "none"
    /\ fitter = NoValue
    /\ op = "none"
    /\ input = NoValue
    /\ output = NoValue
    /\ fitted = NoValue
    /\ on_fit_input = FALSE
    /\ fit_self = NoValue
    /\ records_read = 0
    /\ calls = NoCalls
    /\ borrow = 0

\* Dataset::new(data, target, data_columns, target_column).
DatasetNew ==
    /\ kind = "dataset"
    /\ op = "none"
    /\ \E a \in DatasetNewArgs :
         /\ input' = a
         /\ output' = [tag |-> "Value",
                       val |-> Dataset_new(a.data, a.target, a.data_columns,
                                           a.target_column)]
    /\ op' = "Dataset_new"
    /\ UNCHANGED <<kind, fit_self, phase, fitter, fitted, on_fit_input, records_read,
                   calls, borrow>>

\* Dataset::<Matrix<f64>, Vector<Y>>::from_csv(file_path, target_column).
DatasetFromCsv ==
    /\ kind = "dataset"
    /\ op = "none"
    /\ \E a \in [file : CsvFiles, target_column : {"t"}, ty : TargetTypes] :
         LET r == Dataset_from_csv(a.file, a.target_column, a.ty) IN
           /\ input' = a
           /\ output' = r.result
           /\ records_read' = r.records_read
    /\ op' = "Dataset_from_csv"
    /\ UNCHANGED <<kind, fit_self, phase, fitter, fitted, on_fit_input, calls, borrow>>

\* MixedDataset::<Vector<Y>>::from_csv(file_path, target_column,
\* numeric_columns).
MixedDatasetFromCsv ==
    /\ kind = "dataset"
    /\ op = "none"
    /\ \E a \in [file : CsvFiles, target_column : {"t"}, ty : TargetTypes,
                  numeric_columns : NumericColumnSets] :
         LET r == MixedDataset_from_csv(a.file, a.target_column, a.numeric_columns,
                                        a.ty) IN
           /\ input' = a
           /\ output' = r.result
           /\ records_read' = r.records_read
    /\ op' = "MixedDataset_from_csv"
    /\ UNCHANGED <<kind, fit_self, phase, fitter, fitted, on_fit_input, calls, borrow>>

\* The caller lets go of the last call's arguments and result.
DropDataset ==
    /\ kind = "dataset"
    /\ op \in {"Dataset_new", "Dataset_from_csv", "MixedDataset_from_csv"}
    /\ op' = "none"
    /\ input' = NoValue
    /\ output' = NoValue
    /\ records_read' = 0
    /\ UNCHANGED <<kind, fit_self, phase, fitter, fitted, on_fit_input, calls, borrow>>

NextDataset == DatasetNew \/ DatasetFromCsv \/ MixedDatasetFromCsv \/ DropDataset

SpecDataset == InitDataset /\ [][NextDataset]_vars

-----------------------------------------------------------------------------
(* The transform protocol.                                                 *)

\* C1: fit-state gating.  On each of the three preprocessors, fit_status
\* reports NotFit on a fitter fresh from Default::default() or
\* MinMaxFitter::new, and Fit on the fitter inside every transformer that fit
\* returns; a transformer never holds a NotFit fitter, so transform, which
\* only a transformer offers, never runs on un-fit state.
C1_FitStateGating ==
    /\ op = "new" => phase = "fitter" /\ fit_status(fitter) = "NotFit"
    /\ op = "fit" /\ output.tag = "Ok" => fit_status(output.val.fitter) = "Fit"
    /\ phase = "transformer" => fit_status(fitter) = "Fit"
    /\ op = "transform" => phase = "transformer" /\ fit_status(fitted) = "Fit"

\* A transform has run on a scaler that fit returned.
C1_Witness ==
    /\ kind = "minmax"
    /\ op = "transform"
    /\ output.tag = "Ok"
    /\ fit_status(fitter) = "Fit"
    /\ fitter.num_featues = 2

\* C2: the fitted state is read-only after fit.  Whatever transform calls
\* were made on a transformer since fit returned it, and whether they
\* succeeded or failed, the fitter it holds is the one fit left, and the
\* result of the last call is the result the state fit left gives for that
\* input.
C2_FittedStateReadOnly ==
    phase = "transformer" =>
        /\ fitter = fitted
        /\ op = "transform" => output = TransformCall(kind, fitted, input).result

\* A transform on a fitted label encoder has failed and left the map as fit
\* built it.
C2_Witness ==
    /\ kind = "label"
    /\ op = "transform"
    /\ output.tag = "Err"
    /\ fitter = fitted
    /\ Cardinality(DOMAIN fitter.label_map) = 2

-----------------------------------------------------------------------------
(* The label encoder.                                                      *)

\* The place of the first occurrence of v in L.
FirstIndex(L, v) == CHOOSE i \in 1..Len(L) : L[i] = v /\ \A j \in 1..(i - 1) : L[j] # v

\* How many distinct values occur in L before the first occurrence of v.
FirstSeenRank(L, v) == Cardinality({L[j] : j \in 1..(FirstIndex(L, v) - 1)})

\* C3: label encoder fit assigns codes in first-seen order.  fit returns Ok,
\* the keys of label_map are exactly the distinct values of the input, and
\* the value that first appears as the i-th distinct value (from 0) has code
\* i; the map is thereby a function of the input sequence alone.
C3_FirstSeenCodes ==
    kind = "label" /\ op = "fit" =>
        /\ output.tag = "Ok"
        /\ output.val.fitter = fitter
        /\ DOMAIN fitter.label_map = Range(input)
        /\ \A v \in Range(input) : fitter.label_map[v] = FirstSeenRank(input, v)

\* fit on <<"b", "a", "b">> has given b the code 0 and a the code 1.
C3_Witness ==
    /\ kind = "label"
    /\ op = "fit"
    /\ input = <<"b", "a", "b">>
    /\ fitter.label_map["b"] = 0
    /\ fitter.label_map["a"] = 1

\* C4: label encoder transform on a sequence that holds a label that is no
\* key of the fitted map returns Err(InvalidState) and no sequence, wherever
\* the unseen label stands.
C4_UnseenLabelFails ==
    kind = "label" /\ op = "transform"
      /\ (\E j \in 1..Len(input) : input[j] \notin DOMAIN fitter.label_map) =>
        output = Err("InvalidState")

\* A transform has failed on an unseen label that follows a known one.
C4_Witness ==
    /\ kind = "label"
    /\ op = "transform"
    /\ Len(input) >= 2
    /\ input[1] \in DOMAIN fitter.label_map
    /\ input[Len(input)] \notin DOMAIN fitter.label_map
    /\ output.tag = "Err"

\* C5: label encoder transform on a sequence of known labels returns Ok with
\* a sequence of the same length that holds at j the fitted code of
\* input[j]; transforming the sequence the encoder was fitted on succeeds.
C5_KnownLabelsMapped ==
    kind = "label" /\ op = "transform" =>
        /\ (\A j \in 1..Len(input) : input[j] \in DOMAIN fitter.label_map) =>
              /\ output.tag = "Ok"
              /\ Len(output.val) = Len(input)
              /\ \A j \in 1..Len(input) : output.val[j] = fitter.label_map[input[j]]
        /\ on_fit_input => output.tag = "Ok"

\* The encoder has transformed the three labels it was fitted on.
C5_Witness ==
    /\ kind = "label"
    /\ op = "transform"
    /\ on_fit_input
    /\ input = <<"c", "a", "c">>
    /\ output = Ok(<<0, 1, 0>>)

-----------------------------------------------------------------------------
(* The one-hot encoder.                                                    *)

\* data_columns names each column once, as the data model requires.
DistinctNames(cols) == \A i, j \in 1..Len(cols) : i # j => cols[i] # cols[j]

\* The rows of ds that hold a categorical cell in column j.
CategoricalRows(ds, j) == {r \in 1..Len(ds.data) : ds.data[r][j].t = "Categorical"}

\* The distinct categories of column j of ds.
ColumnCategories(ds, j) == {ds.data[r][j].cat : r \in CategoricalRows(ds, j)}

\* How many distinct categories column j holds above the first row with c.
ColumnRank(ds, j, c) ==
    LET first == CHOOSE r \in CategoricalRows(ds, j) :
                     /\ ds.data[r][j].cat = c
                     /\ \A q \in CategoricalRows(ds, j) : q < r => ds.data[q][j].cat # c
    IN Cardinality({ds.data[q][j].cat : q \in {q \in CategoricalRows(ds, j) : q < first}})

CategoryAt(map, i) == CHOOSE c \in DOMAIN map : map[c] = i

\* The names one input column stands for in the output.
NamesOf(cm, col_name) ==
    IF col_name \in DOMAIN cm
    THEN [i \in 1..Cardinality(DOMAIN cm[col_name]) |->
             col_name \o "_" \o CategoryAt(cm[col_name], i - 1)]
    ELSE <<col_name>>

\* The names of the columns from j on, in column order.
RECURSIVE NamesFrom(_, _, _)
NamesFrom(cm, cols, j) ==
    IF j > Len(cols) THEN <<>> ELSE NamesOf(cm, cols[j]) \o NamesFrom(cm, cols, j + 1)

\* C7: the column names of a one-hot transform's output replay the input's
\* data_columns in order: a column in the fitted map gives one name per
\* category, column name + "_" + category, by increasing fitted index; a
\* column not in the map gives its own name.
C7_OneHotColumnNames ==
    kind = "onehot" /\ op = "transform" /\ output.tag = "Ok" =>
        output.val.data_columns = NamesFrom(fitter.category_map, input.data_columns, 1)

\* Column x, fitted with b before a, and the unfitted column y were named.
C7_Witness ==
    /\ kind = "onehot"
    /\ op = "transform"
    /\ output.tag = "Ok"
    /\ input.data_columns = <<"x", "y">>
    /\ output.val.data_columns = <<"x_b", "x_a", "y">>

\* Every column of ds is categorical in all rows or numeric in all rows.
TypedColumns(ds) ==
    \A j \in 1..Len(ds.data_columns) :
        \/ \A r \in 1..Len(ds.data) : ds.data[r][j].t = "Categorical"
        \/ \A r \in 1..Len(ds.data) : ds.data[r][j].t = "Numeric"

\* n + sum(ci) over the columns from j on: ci for a column with categories,
\* 1 for a numeric one.
RECURSIVE ExpandedWidth(_, _)
ExpandedWidth(ds, j) ==
    IF j > Len(ds.data_columns) THEN 0
    ELSE (IF ColumnCategories(ds, j) # {}
          THEN Cardinality(ColumnCategories(ds, j)) ELSE 1)
         + ExpandedWidth(ds, j + 1)

\* C8: one-hot column count.  Fitting and then transforming a MixedDataset
\* with k categorical columns of c1..ck distinct categories and n numeric
\* columns yields a Dataset whose matrix has n + sum(ci) columns and as many
\* rows as the input.
C8_OneHotColumnCount ==
    kind = "onehot" /\ op = "transform" /\ on_fit_input
      /\ TypedColumns(input) /\ DistinctNames(input.data_columns) =>
        /\ output.tag = "Ok"
        /\ output.val.data.cols = ExpandedWidth(input, 1)
        /\ output.val.data.rows = Len(input.data)

\* C8 where the dataset has a row: the count the claim states is the count
\* the code gives.
C8_ColumnCountWithRows ==
    kind = "onehot" /\ op = "transform" /\ on_fit_input /\ Len(input.data) > 0
      /\ TypedColumns(input) /\ DistinctNames(input.data_columns) =>
        /\ output.tag = "Ok"
        /\ output.val.data.cols = ExpandedWidth(input, 1)
        /\ output.val.data.rows = Len(input.data)

\* Each cell of ds is categorical exactly when its column has a fitted map
\* (the schema-compatible inputs of transform).
SchemaCompatible(cm, ds) ==
    \A r \in 1..Len(ds.data) : \A j \in 1..Len(ds.data_columns) :
        ds.data[r][j].t = "Categorical" <=> ds.data_columns[j] \in DOMAIN cm

\* How many output columns the input columns before j stand for.
RECURSIVE NameOffset(_, _, _)
NameOffset(cm, cols, j) ==
    IF j <= 1 THEN 0
    ELSE NameOffset(cm, cols, j - 1)
         + (IF cols[j - 1] \in DOMAIN cm THEN Cardinality(DOMAIN cm[cols[j - 1]]) ELSE 1)

RECURSIVE SumSeq(_)
SumSeq(q) == IF q = <<>> THEN 0 ELSE Head(q) + SumSeq(Tail(q))

\* C9: one-hot row sum.  On a schema-compatible input with a row, transform
\* returns Ok, also when a category was not seen at fit time; in every
\* output row the block of a column with a fitted map is as long as the map
\* and holds a single 1.0 at the fitted index of the row's category (sum
\* 1.0) when the category is a key, and only 0.0 (sum 0.0) when it is not.
C9_OneHotBlocks ==
    kind = "onehot" /\ op = "transform" /\ Len(input.data) > 0
      /\ SchemaCompatible(fitter.category_map, input) =>
        LET cm == fitter.category_map
            cols == input.data_columns
        IN /\ output.tag = "Ok"
           /\ output.val.data.rows = Len(input.data)
           /\ output.val.data.cols = NameOffset(cm, cols, Len(cols) + 1)
           /\ \A r \in 1..Len(input.data) : \A j \in 1..Len(cols) :
                cols[j] \in DOMAIN cm =>
                  LET map == cm[cols[j]]
                      off == NameOffset(cm, cols, j)
                      block == SubSeq(MatrixRow(output.val.data, r),
                                      off + 1, off + Cardinality(DOMAIN map))
                      cat == input.data[r][j].cat
                  IN /\ Len(block) = Cardinality(DOMAIN map)
                     /\ cat \in DOMAIN map =>
                          /\ \A i \in 1..Len(block) :
                               block[i] = IF i - 1 = map[cat] THEN 1 ELSE 0
                          /\ SumSeq(block) = 1
                     /\ cat \notin DOMAIN map =>
                          /\ \A i \in 1..Len(block) : block[i] = 0
                          /\ SumSeq(block) = 0

\* A row with the seen category a in x (fitted b, a) and the unseen category
\* b in y (fitted a) was encoded.
C9_Witness ==
    /\ kind = "onehot"
    /\ op = "transform"
    /\ output.tag = "Ok"
    /\ input.data_columns = <<"x", "y">>
    /\ DOMAIN fitter.category_map = {"x", "y"}
    /\ DOMAIN fitter.category_map["y"] = {"a"}
    /\ DOMAIN fitter.category_map["x"] = {"a", "b"}
    /\ fitter.category_map["x"]["b"] = 0
    /\ Len(input.data) = 1
    /\ input.data[1] = <<Categorical("a"), Categorical("b")>>
    /\ output.val.data.data = <<0, 1, 0>>

\* C10: one-hot transform leaves the label side untouched: target and
\* target_column of the output are those of the input; on a
\* schema-compatible input every Numeric cell stands unchanged in its
\* output row at the place its column has in the flattened column order.
C10_OneHotPassThrough ==
    kind = "onehot" /\ op = "transform" /\ output.tag = "Ok" =>
        /\ output.val.target = input.target
        /\ output.val.target_column = input.target_column
        /\ SchemaCompatible(fitter.category_map, input) =>
             LET cm == fitter.category_map
                 cols == input.data_columns
             IN /\ output.val.data.cols = NameOffset(cm, cols, Len(cols) + 1)
                /\ \A r \in 1..Len(input.data) : \A j \in 1..Len(cols) :
                     input.data[r][j].t = "Numeric" =>
                       MatrixRow(output.val.data, r)[NameOffset(cm, cols, j) + 1]
                         = input.data[r][j].num

\* Two rows with a numeric cell after a two-category column were encoded.
C10_Witness ==
    /\ kind = "onehot"
    /\ op = "transform"
    /\ output.tag = "Ok"
    /\ input.data_columns = <<"x", "y">>
    /\ input.data = <<<<Categorical("a"), Numeric(2)>>, <<Categorical("b"), Numeric(1)>>>>
    /\ output.val.data.data = <<1, 0, 2, 0, 1, 1>>
    /\ output.val.target = <<"u", "v">>
    /\ output.val.target_column = "t"

-----------------------------------------------------------------------------
(* The dataset module.                                                     *)

\* len(target) == rows(data) and len(data_columns) == cols(data).
DatasetShape(ds) ==
    /\ Len(ds.target) = ds.data.rows
    /\ Len(ds.data_columns) = ds.data.cols

\* C11: dataset shape invariant.  Every Dataset obtained from Dataset::new,
\* Dataset::from_csv, OneHotEncoder::transform or MinMaxScaler::transform
\* has as many targets as matrix rows and as many column names as matrix
\* columns.
C11_DatasetShapeInvariant ==
    /\ op = "Dataset_new" => DatasetShape(output.val)
    /\ op = "Dataset_from_csv" /\ output.tag = "Ok" => DatasetShape(output.val)
    /\ kind \in {"onehot", "minmax"} /\ op = "transform" /\ output.tag = "Ok" =>
         DatasetShape(output.val)

-----------------------------------------------------------------------------
(* The min-max scaler.                                                     *)

\* C12: min-max transform on a dataset whose number of data_columns differs
\* from the num_features recorded at fit returns Err(InvalidState), hence no
\* Dataset; when the two counts are equal no error is returned.
C12_FeatureCountMismatch ==
    kind = "minmax" /\ op = "transform" =>
        /\ fitted.num_featues # Len(input.data_columns) => output = Err("InvalidState")
        /\ fitted.num_featues = Len(input.data_columns) => output.tag # "Err"

\* A scaler fitted on two features was given a dataset with one column name,
\* and a scaler fitted on one feature scaled a dataset with one.
C12_Witness ==
    /\ kind = "minmax"
    /\ op = "transform"
    /\ fitted.num_featues = 2
    /\ Len(input.data_columns) = 1
    /\ input.data.rows = 2
    /\ output = Err("InvalidState")

\* The cell at row r, column c of a matrix.
Cell(mat, r, c) == mat.data[(r - 1) * mat.cols + c]

\* C13: min-max shape preservation.  Every successful min-max transform
\* returns a Dataset with the rows, columns, data_columns, target and
\* target_column of its input, and the value at (r, c) is
\* input[r][c] * scale_factor[c] + constant_factor[c].
C13_MinMaxShapePreserved ==
    kind = "minmax" /\ op = "transform" /\ output.tag = "Ok" =>
        /\ output.val.data.rows = input.data.rows
        /\ output.val.data.cols = input.data.cols
        /\ output.val.data_columns = input.data_columns
        /\ output.val.target = input.target
        /\ output.val.target_column = input.target_column
        /\ \A r \in 1..input.data.rows : \A c \in 1..input.data.cols :
             Cell(output.val.data, r, c)
               = FAdd(FMul(Cell(input.data, r, c), fitter.scale_factors[c]),
                      fitter.constant_factors[c])

\* C13 for inputs that have the shape of a Dataset.
C13_ShapePreservedOnShapedInput ==
    kind = "minmax" /\ op = "transform" /\ output.tag = "Ok" /\ DatasetShape(input) =>
        /\ output.val.data.rows = input.data.rows
        /\ output.val.data.cols = input.data.cols
        /\ output.val.data_columns = input.data_columns
        /\ output.val.target = input.target
        /\ output.val.target_column = input.target_column
        /\ \A r \in 1..input.data.rows : \A c \in 1..input.data.cols :
             Cell(output.val.data, r, c)
               = FAdd(FMul(Cell(input.data, r, c), fitter.scale_factors[c]),
                      fitter.constant_factors[c])

\* C14: min-max boundary law.  Transforming the dataset a scaler was fitted
\* on maps, in every feature whose fitted max differs from its fitted min,
\* each cell equal to the fitted min to exactly scaled_min and each cell
\* equal to the fitted max to exactly scaled_max.
C14_MinMaxBoundary ==
    kind = "minmax" /\ op = "transform" /\ on_fit_input /\ output.tag = "Ok" =>
        \A r \in 1..input.data.rows : \A c \in 1..input.data.cols :
            fitter.max_values[c] # fitter.min_values[c] =>
              /\ Cell(input.data, r, c) = fitter.min_values[c] =>
                   Cell(output.val.data, r, c) = fitter.scaled_min
              /\ Cell(input.data, r, c) = fitter.max_values[c] =>
                   Cell(output.val.data, r, c) = fitter.scaled_max

\* C14 for finite cells in a dataset that has the shape of a Dataset.
C14_BoundaryOnFiniteCells ==
    kind = "minmax" /\ op = "transform" /\ on_fit_input /\ output.tag = "Ok"
      /\ DatasetShape(input) /\ (\A k \in 1..Len(input.data.data) : IsFin(input.data.data[k])) =>
        \A r \in 1..input.data.rows : \A c \in 1..input.data.cols :
            fitter.max_values[c] # fitter.min_values[c] =>
              /\ Cell(input.data, r, c) = fitter.min_values[c] =>
                   Cell(output.val.data, r, c) = fitter.scaled_min
              /\ Cell(input.data, r, c) = fitter.max_values[c] =>
                   Cell(output.val.data, r, c) = fitter.scaled_max

\* The values of matrix column i over all rows.
ColumnValues(mat, i) ==
    IF i > mat.cols THEN {} ELSE {Cell(mat, r, i) : r \in 1..mat.rows}

\* v is the smallest / the largest member of S.
IsSmallest(v, S) == v \in S /\ \A w \in S : ~FLt(w, v)

IsLargest(v, S) == v \in S /\ \A w \in S : ~FGt(w, v)

\* C15: min-max fit records per-feature extrema.  After fit on a dataset
\* with at least one row, num_features is len(data_columns), the four
\* vectors have that length, and min_values[i] / max_values[i] is the
\* smallest / largest value of matrix column i.
C15_MinMaxExtrema ==
    kind = "minmax" /\ op = "fit" /\ output.tag = "Ok" /\ input.data.rows >= 1 =>
        /\ fitter.num_featues = Len(input.data_columns)
        /\ Len(fitter.min_values) = fitter.num_featues
        /\ Len(fitter.max_values) = fitter.num_featues
        /\ Len(fitter.scale_factors) = fitter.num_featues
        /\ Len(fitter.constant_factors) = fitter.num_featues
        /\ \A i \in 1..fitter.num_featues :
             /\ IsSmallest(fitter.min_values[i], ColumnValues(input.data, i))
             /\ IsLargest(fitter.max_values[i], ColumnValues(input.data, i))

\* C15 for finite cells in a dataset that has the shape of a Dataset.
C15_ExtremaOnFiniteCells ==
    kind = "minmax" /\ op = "fit" /\ output.tag = "Ok" /\ input.data.rows >= 1
      /\ DatasetShape(input) /\ (\A k \in 1..Len(input.data.data) : IsFin(input.data.data[k])) =>
        /\ fitter.num_featues = Len(input.data_columns)
        /\ Len(fitter.min_values) = fitter.num_featues
        /\ Len(fitter.max_values) = fitter.num_featues
        /\ Len(fitter.scale_factors) = fitter.num_featues
        /\ Len(fitter.constant_factors) = fitter.num_featues
        /\ \A i \in 1..fitter.num_featues :
             /\ IsSmallest(fitter.min_values[i], ColumnValues(input.data, i))
             /\ IsLargest(fitter.max_values[i], ColumnValues(input.data, i))

\* C15 for any cells in a dataset that has the shape of a Dataset.
C15_ExtremaOnShapedInput ==
    kind = "minmax" /\ op = "fit" /\ output.tag = "Ok" /\ input.data.rows >= 1
      /\ DatasetShape(input) =>
        \A i \in 1..fitter.num_featues :
             /\ IsSmallest(fitter.min_values[i], ColumnValues(input.data, i))
             /\ IsLargest(fitter.max_values[i], ColumnValues(input.data, i))

-----------------------------------------------------------------------------
(* CSV ingestion.                                                          *)

\* The last call was one of the two from_csv and the file could be opened.
IngestedFile == op \in {"Dataset_from_csv", "MixedDataset_from_csv"} /\ input.file # NoValue

\* C16: from_csv with a target_column that does not occur in the header row
\* returns Err(InvalidData), on the homogeneous and on the mixed path, before
\* any data record is read.
C16_TargetMissing ==
    IngestedFile /\ input.target_column \notin Range(input.file.headers) =>
        /\ output = Err("InvalidData")
        /\ records_read = 0

\* A file with two records whose header lacks the target name was refused.
C16_Witness ==
    /\ op = "MixedDataset_from_csv"
    /\ input.file # NoValue
    /\ input.file.headers = <<"x", "y">>
    /\ Len(input.file.records) = 2
    /\ output = Err("InvalidData")
    /\ records_read = 0

\* The header positions whose fields are feature cells: all but the position
\* the target value is taken from.
FeaturePositions(headers, target_column) ==
    LET target_index == CHOOSE i \in 1..Len(headers) :
                            /\ headers[i] = target_column
                            /\ \A j \in 1..(i - 1) : headers[j] # target_column
    IN SelectSeq([i \in 1..Len(headers) |-> i], LAMBDA i : i # target_index)

\* The number of feature cells in each row of an ingested dataset.
FeatureCells(ds) ==
    IF op = "Dataset_from_csv" THEN {ds.data.cols}
    ELSE {Len(ds.data[k]) : k \in 1..Len(ds.data)}

\* C17: column-order preservation.  In every ingested Dataset or
\* MixedDataset data_columns is the header row without the target column
\* name, in header order, and data_columns[i] is the header of the i-th
\* feature cell of every row, so there are as many names as feature cells
\* per row, also when a header name is repeated.
C17_ColumnOrder ==
    IngestedFile /\ output.tag = "Ok" =>
        LET headers == input.file.headers
            positions == FeaturePositions(headers, input.target_column)
        IN /\ output.val.data_columns
                = SelectSeq(headers, LAMBDA h : h # input.target_column)
           /\ \A n \in FeatureCells(output.val) : n = Len(output.val.data_columns)
           /\ output.val.data_columns = [i \in 1..Len(positions) |-> headers[positions[i]]]

\* C17 for header rows that hold the target name once.
C17_ColumnOrderSingleTarget ==
    IngestedFile /\ output.tag = "Ok"
      /\ Cardinality({i \in 1..Len(input.file.headers) :
                        input.file.headers[i] = input.target_column}) = 1 =>
        LET headers == input.file.headers
            positions == FeaturePositions(headers, input.target_column)
        IN /\ output.val.data_columns
                = SelectSeq(headers, LAMBDA h : h # input.target_column)
           /\ \A n \in FeatureCells(output.val) : n = Len(output.val.data_columns)
           /\ output.val.data_columns = [i \in 1..Len(positions) |-> headers[positions[i]]]

\* C18: from_csv of a file whose header holds the target column and that has
\* no data record returns Err(InvalidData), on both paths.
C18_ZeroDataRows ==
    IngestedFile /\ input.target_column \in Range(input.file.headers)
      /\ input.file.records = <<>> =>
        output = Err("InvalidData")

\* The cell of row k of a mixed dataset that came from header position p.
MixedCellAt(ds, headers, target_column, k, p) ==
    LET positions == FeaturePositions(headers, target_column)
        i == CHOOSE i \in 1..Len(positions) : positions[i] = p
    IN ds.data[k][i]

\* C19: mixed-path column typing.  In every MixedDataset that
\* MixedDataset::from_csv returns, a feature cell is Numeric when the header
\* name of its column is in numeric_columns and Categorical with the field's
\* text otherwise, whatever the text looks like, so the variant is the same
\* in all rows of a column; a non-numeric text in a listed column makes the
\* call return Err(InvalidData).
C19_MixedColumnTyping ==
    op = "MixedDataset_from_csv" /\ input.file # NoValue
      /\ input.target_column \in Range(input.file.headers) =>
        LET headers == input.file.headers
            records == input.file.records
            positions == FeaturePositions(headers, input.target_column)
        IN /\ output.tag = "Ok" =>
                /\ Len(output.val.data) = Len(records)
                /\ \A k \in 1..Len(records) :
                     /\ Len(output.val.data[k]) = Len(positions)
                     /\ \A i \in 1..Len(positions) :
                          LET cell == output.val.data[k][i]
                              text == records[k][positions[i]]
                          IN IF headers[positions[i]] \in input.numeric_columns
                             THEN cell.t = "Numeric" /\ Ok(cell.num) = f64_from_str(text)
                             ELSE cell = Categorical(text)
           /\ (\E k \in 1..Len(records) : \E p \in 1..Len(records[k]) :
                 /\ p <= Len(headers)
                 /\ headers[p] \in input.numeric_columns
                 /\ f64_from_str(records[k][p]).tag # "Ok")
                => output = Err("InvalidData")

\* The text "1" became Numeric in the listed column x and stayed Categorical
\* in the unlisted column y.
C19_Witness ==
    /\ op = "MixedDataset_from_csv"
    /\ input.file # NoValue
    /\ input.file.headers = <<"x", "t", "y">>
    /\ input.numeric_columns = {"x"}
    /\ input.file.records = << <<"1", "a", "1">> >>
    /\ output.tag = "Ok"
    /\ output.val.data = << <<Numeric(FInt(1)), Categorical("1")>> >>

-----------------------------------------------------------------------------
(* Concurrent callers.                                                     *)

\* C20: a fitted transformer is safe for concurrent use.  When several
\* callers issue transform calls on one fitted transformer that nobody fits
\* again, then under every interleaving each finished call holds the result
\* the call gives on the transformer as fit left it, the fitted state stays
\* as fit left it, and no two callers are inside transform at once.
C20_ConcurrentTransform ==
    phase = "shared" =>
        /\ fitter = fitted
        /\ \A c \in Callers :
             calls[c].pc = "done" =>
               calls[c].output = TransformCall(kind, fitted, calls[c].input).result
        /\ Cardinality({c \in Callers : calls[c].pc = "running"}) <= 1
        /\ \A c \in Callers : calls[c].pc = "running" <=> borrow = c

\* One caller holds a finished call that failed while another caller's call
\* on the same label encoder had succeeded, and the other way round.
C20_Witness ==
    /\ phase = "shared"
    /\ kind = "label"
    /\ calls[1].pc = "done"
    /\ calls[1].output = Err("InvalidState")
    /\ calls[2].pc = "done"
    /\ calls[2].output = Ok(<<1, 0>>)
    /\ calls[2].input = <<"b", "a">>

-----------------------------------------------------------------------------
(* The one-hot encoder on inputs it cannot assemble.                       *)

\* The number of cells one input row expands to: a Numeric cell gives one, a
\* Categorical cell as many as its column's fitted map has categories, none
\* when the column has no fitted map.
RECURSIVE ExpandedLen(_, _, _, _)
ExpandedLen(cm, cols, row, j) ==
    IF j > Len(row) THEN 0
    ELSE (IF row[j].t = "Numeric" THEN 1
          ELSE IF cols[j] \in DOMAIN cm THEN Cardinality(DOMAIN cm[cols[j]])
          ELSE 0)
         + ExpandedLen(cm, cols, row, j + 1)

\* Two rows of ds expand to different lengths.
RaggedExpansion(cm, ds) ==
    \E r1, r2 \in 1..Len(ds.data) :
        ExpandedLen(cm, ds.data_columns, ds.data[r1], 1)
          # ExpandedLen(cm, ds.data_columns, ds.data[r2], 1)

\* C21: one-hot transform on an input whose rows expand to different
\* lengths returns Err(InvalidState); it neither aborts nor returns a
\* Dataset.
C21_RaggedRowsRejected ==
    kind = "onehot" /\ op = "transform" /\ RaggedExpansion(fitter.category_map, input) =>
        output = Err("InvalidState")

\* C22: one-hot transform of a MixedDataset with zero rows returns to its
\* caller, with Ok or with an Err; it does not abort.
C22_ZeroRowsReturn ==
    kind = "onehot" /\ op = "transform" /\ Len(input.data) = 0 =>
        output.tag \in {"Ok", "Err"}

-----------------------------------------------------------------------------
(* Fitting a fitter value that already carries fitted state.               *)

\* C23: re-fitting discards earlier state.  When fit is called on a label
\* encoder or one-hot fitter value that carries fitted state (a clone of the
\* fitter a transformer holds), the call returns what a default fitter
\* returns on the new input alone, and every label, column and category of
\* the resulting map occurs in the new input; this holds after any sequence
\* of earlier fits.
C23_RefitDiscardsState ==
    kind \in {"label", "onehot"} /\ op = "fit" /\ fit_self.fit = "Fit" =>
        /\ output.tag = "Ok"
        /\ output.val.fitter = fitter
        /\ \A d \in DefaultFitters(kind) : output = FitCall(kind, d, input)
        /\ kind = "label" =>
             /\ DOMAIN fitter.label_map = Range(input)
             /\ \A v \in Range(input) : fitter.label_map[v] = FirstSeenRank(input, v)
        /\ kind = "onehot" =>
             \A name \in DOMAIN fitter.category_map :
                 \E j \in 1..Len(input.data_columns) :
                     /\ input.data_columns[j] = name
                     /\ DOMAIN fitter.category_map[name] = ColumnCategories(input, j)

\* A fitter that held a -> 0, c -> 1 has been fitted on <<"b", "a">>: c is
\* gone and a has the code the new input gives it.
C23_Witness ==
    /\ kind = "label"
    /\ op = "fit"
    /\ fit_self = [label_map |-> LabelFitLoop(EmptyMap, 0, <<"a", "c">>, 1), fit |-> "Fit"]
    /\ input = <<"b", "a">>
    /\ DOMAIN fitter.label_map = {"a", "b"}
    /\ fitter.label_map["b"] = 0
    /\ fitter.label_map["a"] = 1

=============================================================================
